---- MODULE Spec2Model ----
(***************************************************************************)
(* A model of the todo.txt crate of src/src/lib.rs: the Task record, the   *)
(* parser Task::new and the serializer Task::to_string.                    *)
(*                                                                         *)
(* A string is a sequence of one-character strings, <<"x", " ", "a">>.     *)
(* The regular expressions of Task::new are modelled by what the regex     *)
(* crate computes for them: the leftmost match, greedy repetition, and     *)
(* find_iter / replace_all walking the non-overlapping matches from left   *)
(* to right.                                                               *)
(***************************************************************************)
EXTENDS Integers, Sequences, FiniteSets

VARIABLES line, task, out, back, kind, pc

vars == <<line, task, out, back, kind, pc>>

(***************************************************************************)
(* Bounds of the inputs.                                                   *)
(***************************************************************************)
\* longest line drawn over MarkerChars
MaxMarkerLen == 4
\* longest line drawn over TagChars
MaxTagLen == 4
\* longest line drawn over JoinChars
MaxJoinLen == 5
\* longest line drawn over GapChars
MaxGapLen == 6
\* longest line drawn over WideChars
MaxWideLen == 4
\* longest line drawn over PairChars
MaxPairLen == 7
\* longest description of a directly constructed Task
MaxDescLen == 1
\* most projects, contexts and attributes, together, of a constructed Task
MaxTags == 2

\* The characters of the lines about the completion and priority markers.
MarkerChars == {"x", " ", "\t", "\n", "(", ")", "A"}
\* The characters of the lines about tags and attributes.
TagChars == {"a", "+", "@", ":", " "}
\* The characters of the lines about a deleted tag joining its two sides,
\* and about tags of different names following one another.
JoinChars == {"a", "b", "+", "@", ":"}
\* The characters of the lines about several attributes in a row.
PairChars == {"a", "b", ":"}
\* The characters of the lines about the spaces a deleted tag leaves.
GapChars == {"a", "+", " "}
\* The characters of the lines about text outside ASCII, about the
\* vertical tab U+000B and about the no-break space U+00A0.
WideChars == {"é", "+", ":", "", " "}
\* The characters of a constructed Task's description; the last is the
\* no-break space U+00A0.
DescChars == {"x", " ", " "}
\* The names a constructed Task carries as project, context, key or value.
Words == {<<"a">>, <<"b">>}
\* The project a caller pushes on a parsed Task.
Pushed == <<"r">>
\* The markers a line of tags may carry in front.
Leads == {<< >>, <<"x", " ", "(", "A", ")", " ">>}

Str(chars, n) == UNION {[1..k -> chars] : k \in 0..n}

(***************************************************************************)
(* Character classes of the regex crate and of str::trim. Both are         *)
(* Unicode-aware: \s and trim take the White_Space characters, \w takes   *)
(* every letter, digit, mark and connector. The classes are listed here    *)
(* for U+0000 to U+00FF, the characters a string of this module can hold:  *)
(* the text the model reads is of this range.                              *)
(***************************************************************************)
LowerChars ==
    {"a", "b", "c", "d", "e", "f", "g", "h", "i", "j", "k", "l", "m",
     "n", "o", "p", "q", "r", "s", "t", "u", "v", "w", "x", "y", "z"}

UpperChars ==
    {"A", "B", "C", "D", "E", "F", "G", "H", "I", "J", "K", "L", "M",
     "N", "O", "P", "Q", "R", "S", "T", "U", "V", "W", "X", "Y", "Z"}

DigitChars == {"0", "1", "2", "3", "4", "5", "6", "7", "8", "9"}

\* the letters of U+0080 to U+00FF
Latin1Letters ==
    {"ª", "µ", "º", "À", "Á", "Â", "Ã", "Ä", "Å", "Æ", "Ç", "È", "É",
     "Ê", "Ë", "Ì", "Í", "Î", "Ï", "Ð", "Ñ", "Ò", "Ó", "Ô", "Õ", "Ö",
     "Ø", "Ù", "Ú", "Û", "Ü", "Ý", "Þ", "ß", "à", "á", "â", "ã", "ä",
     "å", "æ", "ç", "è", "é", "ê", "ë", "ì", "í", "î", "ï", "ð", "ñ",
     "ò", "ó", "ô", "õ", "ö", "ø", "ù", "ú", "û", "ü", "ý", "þ", "ÿ"}

\* White_Space: U+0009 to U+000D and U+0020
AsciiSpaces == {"\t", "\n", "", "\f", "\r", " "}

\* White_Space: U+0085 and U+00A0
WideSpaces == {"", " "}

\* \w : letters, digits and the underscore
IsWord(c) ==
    c \in LowerChars \cup UpperChars \cup DigitChars \cup {"_"}
         \cup Latin1Letters

\* \s , and the White_Space that trim and trim_end strip
IsSpace(c) == c \in AsciiSpaces \cup WideSpaces

\* [A-Z]
IsUpper(c) == c \in UpperChars

\* . : any character but the line feed
IsDot(c) == c # "\n"

(***************************************************************************)
(* Option<char>: None, or the character.                                   *)
(***************************************************************************)
None == "None"

\* s[a..b], empty when b < a
Slice(s, a, b) == IF b < a THEN << >> ELSE SubSeq(s, a, b)

\* The last index of the longest run of characters of class word (dot)
\* that starts at i; i - 1 when s[i] is not in the class.
WordRunEnd(s, i) ==
    LET stops == {j \in i..Len(s) : ~IsWord(s[j])}
    IN  IF stops = {} THEN Len(s)
        ELSE (CHOOSE j \in stops : \A k \in stops : j <= k) - 1

DotRunEnd(s, i) ==
    LET stops == {j \in i..Len(s) : ~IsDot(s[j])}
    IN  IF stops = {} THEN Len(s)
        ELSE (CHOOSE j \in stops : \A k \in stops : j <= k) - 1

(***************************************************************************)
(* TASK_EXP: three named groups in a row,                                  *)
(*     c = x\s , optional;  p = \([A-Z]\)\s , optional;  d = . repeated    *)
(*     zero or more times.                                                 *)
(* A match attempt at index i (1-based), groups taken greedily: c and p    *)
(* are taken whenever their text is there, since d matches whatever        *)
(* follows. ok: the attempt matched; c_some, p_some, d_some: the group     *)
(* took part in the match; p, d: its text.                                 *)
(***************************************************************************)
\* TASK_EXP with d = . repeated one or more times
TaskExpAt_PlusD(s, i) ==
    LET c_some == i + 1 <= Len(s) /\ s[i] = "x" /\ IsSpace(s[i + 1])
        j == IF c_some THEN i + 2 ELSE i
        p_some == /\ j + 3 <= Len(s)
                  /\ s[j] = "("
                  /\ IsUpper(s[j + 1])
                  /\ s[j + 2] = ")"
                  /\ IsSpace(s[j + 3])
        k == IF p_some THEN j + 4 ELSE j
        e == DotRunEnd(s, k)
    IN  [ok |-> e >= k, c_some |-> c_some, p_some |-> p_some,
         p |-> IF p_some THEN SubSeq(s, j, j + 3) ELSE << >>,
         d_some |-> e >= k, d |-> Slice(s, k, e)]

TaskExpAt(s, i) ==
    LET c_some == i + 1 <= Len(s) /\ s[i] = "x" /\ IsSpace(s[i + 1])
        j == IF c_some THEN i + 2 ELSE i
        p_some == /\ j + 3 <= Len(s)
                  /\ s[j] = "("
                  /\ IsUpper(s[j + 1])
                  /\ s[j + 2] = ")"
                  /\ IsSpace(s[j + 3])
        k == IF p_some THEN j + 4 ELSE j
        e == DotRunEnd(s, k)
    IN  [ok |-> TRUE, c_some |-> c_some, p_some |-> p_some,
         p |-> IF p_some THEN SubSeq(s, j, j + 3) ELSE << >>,
         d_some |-> TRUE, d |-> Slice(s, k, e)]

\* TASK_EXP.captures(&task): the leftmost match, or no match at all.
TaskExpCaptures(s) ==
    LET at == {i \in 1..(Len(s) + 1) : TaskExpAt(s, i).ok}
    IN  IF at = {}
        THEN [ok |-> FALSE, c_some |-> FALSE, p_some |-> FALSE, p |-> << >>,
              d_some |-> FALSE, d |-> << >>]
        ELSE TaskExpAt(s, CHOOSE i \in at : \A k \in at : i <= k)

(***************************************************************************)
(* PROJECT_EXP = \+\w+ , CONTEXT_EXP = @\w+ ,                              *)
(* KEY_VALUE_EXP = (?P<k>\w+):(?P<v>\w+)                                   *)
(* A match attempt at index i: ok, the span start..end, and for            *)
(* KEY_VALUE_EXP the index of the ':' between k and v (0 otherwise).       *)
(***************************************************************************)
NoMatch == [ok |-> FALSE, start |-> 0, end |-> 0, colon |-> 0]

MarkedWordAt(marker, s, i) ==
    IF i + 1 <= Len(s) /\ s[i] = marker /\ IsWord(s[i + 1])
    THEN [ok |-> TRUE, start |-> i, end |-> WordRunEnd(s, i + 1), colon |-> 0]
    ELSE NoMatch

PROJECT_EXP(s, i) == MarkedWordAt("+", s, i)

CONTEXT_EXP(s, i) == MarkedWordAt("@", s, i)

KEY_VALUE_EXP(s, i) ==
    IF i <= Len(s) /\ IsWord(s[i])
    THEN LET c == WordRunEnd(s, i) + 1
         IN  IF c + 1 <= Len(s) /\ s[c] = ":" /\ IsWord(s[c + 1])
             THEN [ok |-> TRUE, start |-> i, end |-> WordRunEnd(s, c + 1),
                   colon |-> c]
             ELSE NoMatch
    ELSE NoMatch

MatchAt(re, s, i) ==
    CASE re = "PROJECT_EXP" -> PROJECT_EXP(s, i)
      [] re = "CONTEXT_EXP" -> CONTEXT_EXP(s, i)
      [] re = "KEY_VALUE_EXP" -> KEY_VALUE_EXP(s, i)

\* find_iter / captures_iter from index pos: the leftmost match at or after
\* pos, then the leftmost match after its end, and so on. Scan[i] is what
\* the iterator yields once it stands at index i.
FindIter(re, s, pos) ==
    LET Scan[i \in 1..(Len(s) + 1)] ==
            IF i > Len(s) THEN << >>
            ELSE LET m == MatchAt(re, s, i)
                 IN  IF m.ok THEN <<m>> \o Scan[m.end + 1] ELSE Scan[i + 1]
    IN  Scan[pos]

\* replacen(s, 1, ""): s without the text of the first match only
ReplaceAll_FirstOnly(re, s) ==
    LET ms == FindIter(re, s, 1)
    IN  IF ms = << >> THEN s
        ELSE Slice(s, 1, ms[1].start - 1) \o Slice(s, ms[1].end + 1, Len(s))

\* replace_all(s, ""): s without the text of the matches.
ReplaceAll(re, s) ==
    LET ms == FindIter(re, s, 1)
        gone == UNION {ms[n].start..ms[n].end : n \in 1..Len(ms)}
        F[i \in 0..Len(s)] ==
            IF i = 0 THEN << >>
            ELSE IF i \in gone THEN F[i - 1] ELSE Append(F[i - 1], s[i])
    IN  F[Len(s)]

\* m.as_str().get(0..) of every match: the tag with its marker
TagNames_KeepMarker(re, s) ==
    LET ms == FindIter(re, s, 1)
    IN  [n \in 1..Len(ms) |-> Slice(s, ms[n].start, ms[n].end)]

\* m.as_str().get(1..) of every match: the tag without its marker
TagNames(re, s) ==
    LET ms == FindIter(re, s, 1)
    IN  [n \in 1..Len(ms) |-> Slice(s, ms[n].start + 1, ms[n].end)]

\* (c.name("k"), c.name("v")) of every match
KeyValues(s) ==
    LET ms == FindIter("KEY_VALUE_EXP", s, 1)
    IN  [n \in 1..Len(ms) |->
            <<Slice(s, ms[n].start, ms[n].colon - 1),
              Slice(s, ms[n].colon + 1, ms[n].end)>>]

\* str::trim_end and str::trim
TrimEnd(s) ==
    LET keep == {i \in 1..Len(s) : ~IsSpace(s[i])}
    IN  IF keep = {} THEN << >>
        ELSE SubSeq(s, 1, CHOOSE i \in keep : \A k \in keep : k <= i)

TrimStart(s) ==
    LET keep == {i \in 1..Len(s) : ~IsSpace(s[i])}
    IN  IF keep = {} THEN << >>
        ELSE SubSeq(s, CHOOSE i \in keep : \A k \in keep : i <= k, Len(s))

Trim(s) == TrimEnd(TrimStart(s))

(***************************************************************************)
(* struct Task                                                             *)
(***************************************************************************)
Task(is_complete, priority, description, projects, contexts, attributes) ==
    [is_complete |-> is_complete, priority |-> priority,
     description |-> description, projects |-> projects,
     contexts |-> contexts, attributes |-> attributes]

EmptyTask == Task(FALSE, None, << >>, << >>, << >>, << >>)

(***************************************************************************)
(* Task::new                                                               *)
(***************************************************************************)
\* Either unwrap of Task::new finds None.
NewPanics(s) ==
    LET captures == TaskExpCaptures(s)
    IN  ~captures.ok \/ ~captures.d_some

\* Task::new with the attributes taken before the projects and contexts
TaskNew_AttributesFirst(s) ==
    LET captures == TaskExpCaptures(s)
        is_complete == captures.c_some
        priority == IF captures.p_some THEN captures.p[2] ELSE None
        d0 == captures.d
        attributes == KeyValues(d0)
        d1 == ReplaceAll("KEY_VALUE_EXP", d0)
        projects == TagNames("PROJECT_EXP", d1)
        d2 == ReplaceAll("PROJECT_EXP", d1)
        contexts == TagNames("CONTEXT_EXP", d2)
        d3 == ReplaceAll("CONTEXT_EXP", d2)
    IN  Task(is_complete, priority, Trim(d3), projects, contexts, attributes)

TaskNew(s) ==
    LET captures == TaskExpCaptures(s)
        is_complete == captures.c_some
        priority == IF captures.p_some THEN captures.p[2] ELSE None
        d0 == captures.d
        projects == TagNames("PROJECT_EXP", d0)
        d1 == ReplaceAll("PROJECT_EXP", d0)
        contexts == TagNames("CONTEXT_EXP", d1)
        d2 == ReplaceAll("CONTEXT_EXP", d1)
        attributes == KeyValues(d2)
        d3 == ReplaceAll("KEY_VALUE_EXP", d2)
    IN  Task(is_complete, priority, Trim(d3), projects, contexts, attributes)

(***************************************************************************)
(* Task::to_string                                                         *)
(***************************************************************************)
RECURSIVE PushEach(_, _)
\* for_each over a Vec<String>: push "<marker><name> " for every name
PushEach(marker, names) ==
    IF names = << >> THEN << >>
    ELSE <<marker>> \o Head(names) \o <<" ">> \o PushEach(marker, Tail(names))

RECURSIVE PushPairs(_)
\* for_each over the attributes: push "<key>:<value> "
PushPairs(pairs) ==
    IF pairs = << >> THEN << >>
    ELSE Head(pairs)[1] \o <<":">> \o Head(pairs)[2] \o <<" ">>
         \o PushPairs(Tail(pairs))

\* to_string without the final trim_end
to_string_NoTrim(t) ==
    LET s0 == IF t.is_complete THEN <<"x", " ">> ELSE << >>
        s1 == IF t.priority # None
              THEN s0 \o <<"(", t.priority, ")", " ">> ELSE s0
        s2 == s1 \o t.description \o <<" ">>
        s3 == s2 \o PushEach("+", t.projects)
        s4 == s3 \o PushEach("@", t.contexts)
    IN  s4 \o PushPairs(t.attributes)

\* to_string with the contexts written before the projects
to_string_ContextsFirst(t) ==
    LET s0 == IF t.is_complete THEN <<"x", " ">> ELSE << >>
        s1 == IF t.priority # None
              THEN s0 \o <<"(", t.priority, ")", " ">> ELSE s0
        s2 == s1 \o t.description \o <<" ">>
        s3 == s2 \o PushEach("@", t.contexts)
        s4 == s3 \o PushEach("+", t.projects)
        s5 == s4 \o PushPairs(t.attributes)
    IN  TrimEnd(s5)

to_string(t) ==
    LET s0 == IF t.is_complete THEN <<"x", " ">> ELSE << >>
        s1 == IF t.priority # None
              THEN s0 \o <<"(", t.priority, ")", " ">> ELSE s0
        s2 == s1 \o t.description \o <<" ">>
        s3 == s2 \o PushEach("+", t.projects)
        s4 == s3 \o PushEach("@", t.contexts)
        s5 == s4 \o PushPairs(t.attributes)
    IN  TrimEnd(s5)

(***************************************************************************)
(* The workflow of the crate's documentation: a line is read and parsed    *)
(* with Task::new (or a Task is built field by field), the caller may act  *)
(* on the Task, Task::to_string writes it, and the written line is parsed  *)
(* again.                                                                  *)
(***************************************************************************)
Lines ==
    Str(MarkerChars, MaxMarkerLen)
    \cup Str(GapChars, MaxGapLen)
    \cup Str(PairChars, MaxPairLen)
    \cup {lead \o s : lead \in Leads,
                      s \in Str(TagChars, MaxTagLen)
                               \cup Str(JoinChars, MaxJoinLen)
                               \cup Str(WideChars, MaxWideLen)}

TagLists == Str(Words, MaxTags)

BuiltTasks ==
    {Task(c, p, d, ps, cs, as) :
        c \in BOOLEAN, p \in {None, "A"}, d \in Str(DescChars, MaxDescLen),
        <<ps, cs, as>> \in
            {x \in TagLists \X TagLists \X Str(Words \X Words, MaxTags) :
                Len(x[1]) + Len(x[2]) + Len(x[3]) <= MaxTags}}

InitLine ==
    /\ line \in Lines
    /\ task = EmptyTask
    /\ kind = "none"
    /\ pc = "read"

InitTask ==
    /\ line = << >>
    /\ task \in BuiltTasks
    /\ kind = "built"
    /\ pc = "task"

Init ==
    /\ InitLine \/ InitTask
    /\ out = << >>
    /\ back = EmptyTask

\* let mut task = todo_txt::Task::new(&example);
New ==
    /\ pc = "read"
    /\ IF NewPanics(line)
       THEN pc' = "panic" /\ UNCHANGED <<task, kind>>
       ELSE task' = TaskNew(line) /\ kind' = "parsed" /\ pc' = "task"
    /\ UNCHANGED <<line, out, back>>

\* task.projects.push(..); task.is_complete = true;
Mutate ==
    /\ pc = "task"
    /\ kind = "parsed"
    /\ task' = [task EXCEPT !.projects = Append(@, Pushed),
                            !.is_complete = TRUE]
    /\ kind' = "mutated"
    /\ UNCHANGED <<line, out, back, pc>>

\* task.to_string()
Write ==
    /\ pc = "task"
    /\ out' = to_string(task)
    /\ pc' = "written"
    /\ UNCHANGED <<line, task, back, kind>>

\* Task::new on the line that was written
ReadBack ==
    /\ pc = "written"
    /\ IF NewPanics(out)
       THEN pc' = "panic" /\ UNCHANGED back
       ELSE back' = TaskNew(out) /\ pc' = "reread"
    /\ UNCHANGED <<line, task, out, kind>>

Next == New \/ Mutate \/ Write \/ ReadBack

Spec == Init /\ [][Next]_vars

(***************************************************************************)
(* Vocabulary of the properties.                                           *)
(***************************************************************************)
StartsWith(s, pre) == Len(s) >= Len(pre) /\ SubSeq(s, 1, Len(pre)) = pre

\* a non-empty sequence of word characters
IsName(w) == w # << >> /\ \A i \in 1..Len(w) : IsWord(w[i])

\* d holds +WORD, @WORD or WORD:WORD somewhere
HasToken(d) ==
    \E i \in 1..(Len(d) - 1) :
        \/ d[i] \in {"+", "@"} /\ IsWord(d[i + 1])
        \/ i >= 2 /\ d[i] = ":" /\ IsWord(d[i - 1]) /\ IsWord(d[i + 1])

\* r is full without its trailing whitespace
IsTrimEndOf(r, full) ==
    /\ StartsWith(full, r)
    /\ r = << >> \/ ~IsSpace(r[Len(r)])
    /\ \A k \in (Len(r) + 1)..Len(full) : IsSpace(full[k])

\* d is r without its leading and trailing whitespace
IsTrimOf(d, r) ==
    /\ d = << >> \/ (~IsSpace(d[1]) /\ ~IsSpace(d[Len(d)]))
    /\ \E i \in 0..Len(r) :
          /\ i + Len(d) <= Len(r)
          /\ Slice(r, i + 1, i + Len(d)) = d
          /\ \A k \in (1..i) \cup ((i + Len(d) + 1)..Len(r)) : IsSpace(r[k])

\* The section 3 invariants of a Task's fields.
ValidTask(t) ==
    /\ t.priority = None \/ IsUpper(t.priority)
    /\ t.description = Trim(t.description)
    /\ ~HasToken(t.description)
    /\ \A n \in 1..Len(t.projects) : IsName(t.projects[n])
    /\ \A n \in 1..Len(t.contexts) : IsName(t.contexts[n])
    /\ \A n \in 1..Len(t.attributes) :
          IsName(t.attributes[n][1]) /\ IsName(t.attributes[n][2])

(***************************************************************************)
(* The three passes, stated by position rather than by scanning: where the *)
(* tokens of a text are, what they name, and what the text is without them.*)
(***************************************************************************)
\* the members of a set of indices, in ascending order
Ascending(S) ==
    [n \in 1..Cardinality(S) |->
        CHOOSE i \in S : Cardinality({j \in S : j < i}) = n - 1]

\* the last and the first index of the word that holds index i
WordLast(w, i) ==
    CHOOSE j \in i..Len(w) :
        /\ \A k \in i..j : IsWord(w[k])
        /\ j = Len(w) \/ ~IsWord(w[j + 1])

WordFirst(w, i) ==
    CHOOSE j \in 1..i :
        /\ \A k \in j..i : IsWord(w[k])
        /\ j = 1 \/ ~IsWord(w[j - 1])

\* w without the characters at the indices of gone
Without(w, gone) ==
    LET kept == Ascending({i \in 1..Len(w) : i \notin gone})
    IN  [n \in 1..Len(kept) |-> w[kept[n]]]

\* where a marker is followed by a word
TagStarts(marker, w) ==
    {i \in 1..(Len(w) - 1) : w[i] = marker /\ IsWord(w[i + 1])}

TagsOf(marker, w) ==
    LET at == Ascending(TagStarts(marker, w))
    IN  [n \in 1..Len(at) |-> SubSeq(w, at[n] + 1, WordLast(w, at[n] + 1))]

WithoutTags(marker, w) ==
    Without(w, UNION {i..WordLast(w, i + 1) : i \in TagStarts(marker, w)})

\* a word starts at index a, WORD:WORD starts there, and the word is not the
\* value of a WORD:WORD that starts further left
RECURSIVE IsKeyStart(_, _)
IsKeyStart(w, a) ==
    /\ a \in 1..Len(w)
    /\ IsWord(w[a])
    /\ a = 1 \/ ~IsWord(w[a - 1])
    /\ LET b == WordLast(w, a)
       IN  b + 2 <= Len(w) /\ w[b + 1] = ":" /\ IsWord(w[b + 2])
    /\ ~(/\ a >= 3
         /\ w[a - 1] = ":"
         /\ IsWord(w[a - 2])
         /\ IsKeyStart(w, WordFirst(w, a - 2)))

KeyStarts(w) == {a \in 1..Len(w) : IsKeyStart(w, a)}

PairsOf(w) ==
    LET at == Ascending(KeyStarts(w))
    IN  [n \in 1..Len(at) |->
            LET b == WordLast(w, at[n])
            IN  <<SubSeq(w, at[n], b), SubSeq(w, b + 2, WordLast(w, b + 2))>>]

WithoutPairs(w) ==
    Without(w, UNION {a..WordLast(w, WordLast(w, a) + 2) : a \in KeyStarts(w)})

\* The working description of a line: what Task::new keeps of it after the
\* markers it recognised.
WorkingDescription(s) == TaskExpCaptures(s).d

(***************************************************************************)
(* C1. Round trip of a Task: a Task whose fields satisfy the section 3     *)
(* invariants is, once written and parsed again, the Task that is equal to *)
(* it.                                                                     *)
(***************************************************************************)
C1_RoundTripOfTask ==
    (pc = "reread" /\ ValidTask(task)) => back = task

(***************************************************************************)
(* C2. Round trip of a line: parsing the written form of a parsed line     *)
(* gives the Task the line gave.                                           *)
(***************************************************************************)
C2_RoundTripOfLine ==
    (pc = "reread" /\ kind = "parsed") => back = task

(***************************************************************************)
(* C3. Task::new is total: neither unwrap finds None, whatever the string, *)
(* and the empty string gives the Task with nothing in it.                 *)
(***************************************************************************)
C3_ParseTotal ==
    /\ pc # "panic"
    /\ (kind = "parsed" /\ line = << >>) =>
          task = [is_complete |-> FALSE, priority |-> None,
                  description |-> << >>, projects |-> << >>,
                  contexts |-> << >>, attributes |-> << >>]

C3_Witness ==
    pc = "task" /\ kind = "parsed" /\ line = << >>

(***************************************************************************)
(* C4. Completion marker: a parsed Task is complete exactly when its line  *)
(* starts with "x" and one space character, and then the description holds *)
(* none of these two characters.                                           *)
(***************************************************************************)
C4_CompletionMarker ==
    kind = "parsed" =>
        /\ task.is_complete <=> StartsWith(line, <<"x", " ">>)
        /\ task.is_complete => Len(task.description) <= Len(line) - 2

(***************************************************************************)
(* C5. Priority marker: a parsed Task has priority L exactly when the text *)
(* after the optional completion marker "x " starts with "(", the          *)
(* uppercase letter L, ")" and one space character.                        *)
(***************************************************************************)
C5_PriorityMarker ==
    kind = "parsed" =>
        LET rest == IF StartsWith(line, <<"x", " ">>)
                    THEN Slice(line, 3, Len(line)) ELSE line
            marked == /\ Len(rest) >= 4
                      /\ rest[1] = "("
                      /\ IsUpper(rest[2])
                      /\ rest[3] = ")"
                      /\ rest[4] = " "
        IN  /\ marked => task.priority = rest[2]
            /\ ~marked => task.priority = None

(***************************************************************************)
(* C6. Canonical serialization: the written line is the tokens "x" (if     *)
(* complete), "(L)" (if priority L), the description as it is, "+p" for    *)
(* every project, "@c" for every context and "k:v" for every attribute, in *)
(* this order, joined by one space each, without the whitespace at its     *)
(* end.                                                                    *)
(***************************************************************************)
Tokens(t) ==
    (IF t.is_complete THEN <<<<"x">>>> ELSE << >>)
    \o (IF t.priority # None THEN <<<<"(", t.priority, ")">>>> ELSE << >>)
    \o <<t.description>>
    \o [n \in 1..Len(t.projects) |-> <<"+">> \o t.projects[n]]
    \o [n \in 1..Len(t.contexts) |-> <<"@">> \o t.contexts[n]]
    \o [n \in 1..Len(t.attributes) |->
            t.attributes[n][1] \o <<":">> \o t.attributes[n][2]]

RECURSIVE JoinWithSpace(_)
JoinWithSpace(toks) ==
    IF Len(toks) = 0 THEN << >>
    ELSE IF Len(toks) = 1 THEN toks[1]
    ELSE toks[1] \o <<" ">> \o JoinWithSpace(Tail(toks))

C6_CanonicalLine ==
    pc \in {"written", "reread"} =>
        IsTrimEndOf(out, JoinWithSpace(Tokens(task)))

\* the Task of the documentation of to_string, in the names of the model
C6_Witness ==
    /\ pc = "written"
    /\ task = Task(TRUE, "A", <<"x">>, << >>, <<<<"a">>>>, <<<<<<"a">>, <<"b">>>>>>)
    /\ out = <<"x", " ", "(", "A", ")", " ", "x", " ", "@", "a", " ", "a", ":", "b">>

(***************************************************************************)
(* C7. Outer whitespace of the written line, as claimed: no space at its   *)
(* end, no space at its start unless the description starts with           *)
(* whitespace, and never a space at the start of the written form of a     *)
(* parsed line.                                                            *)
(***************************************************************************)
C7_OuterSpace_Original ==
    pc = "written" =>
        /\ out = << >> \/ out[Len(out)] # " "
        /\ (out # << >> /\ out[1] = " ") =>
              (task.description # << >> /\ IsSpace(task.description[1]))
        /\ kind = "parsed" => (out = << >> \/ out[1] # " ")

(***************************************************************************)
(* C7, amended. The written line has no whitespace at its end; it has      *)
(* whitespace at its start only if the Task is not complete, has no        *)
(* priority, and its description is empty or starts with whitespace; and   *)
(* the written form of a parsed line starts with a space exactly when the  *)
(* parsed Task is not complete, has no priority, has an empty description  *)
(* and has a project, a context or an attribute.                           *)
(***************************************************************************)
C7_OuterSpace ==
    pc = "written" =>
        /\ out = << >> \/ ~IsSpace(out[Len(out)])
        /\ (out # << >> /\ IsSpace(out[1])) =>
              /\ ~task.is_complete
              /\ task.priority = None
              /\ task.description = << >> \/ IsSpace(task.description[1])
        /\ kind = "parsed" =>
              ((out # << >> /\ out[1] = " ") <=>
                  /\ ~task.is_complete
                  /\ task.priority = None
                  /\ task.description = << >>
                  /\ Len(task.projects) + Len(task.contexts)
                        + Len(task.attributes) > 0)

C7_Witness ==
    /\ pc = "written"
    /\ kind = "parsed"
    /\ line = <<"+", "a">>
    /\ out = <<" ", "+", "a">>

(***************************************************************************)
(* C8. Extraction precedence and order: the projects of a parsed line are  *)
(* the +WORD of its working description from left to right, the contexts   *)
(* the @WORD of what is left without them, the attributes the WORD:WORD,   *)
(* not overlapping, of what is left without both.                          *)
(***************************************************************************)
C8_ThreePasses ==
    kind = "parsed" =>
        LET w0 == WorkingDescription(line)
            w1 == WithoutTags("+", w0)
            w2 == WithoutTags("@", w1)
        IN  /\ task.projects = TagsOf("+", w0)
            /\ task.contexts = TagsOf("@", w1)
            /\ task.attributes = PairsOf(w2)

\* "a@b:b" after both markers: the attribute (a,b) exists only once "@b" is
\* gone
C8_Witness ==
    /\ pc = "task"
    /\ kind = "parsed"
    /\ task.is_complete
    /\ task.priority = "A"
    /\ WorkingDescription(line) = <<"a", "@", "b", ":", "b">>
    /\ task.projects = << >>
    /\ task.contexts = <<<<"b">>>>
    /\ task.attributes = <<<<<<"a">>, <<"b">>>>>>

(***************************************************************************)
(* C9. Field invariants of a parsed Task: the priority is None or one of   *)
(* A-Z, every project and context is a non-empty word without its marker,  *)
(* every key and value a non-empty word without ':'. A word is made of the *)
(* characters \w takes, which are not only those of ASCII.                 *)
(***************************************************************************)
C9_ParsedFields ==
    kind = "parsed" =>
        /\ task.priority = None \/ task.priority \in UpperChars
        /\ \A n \in 1..Len(task.projects) :
              /\ IsName(task.projects[n])
              /\ \A i \in 1..Len(task.projects[n]) :
                    task.projects[n][i] \notin {"+", "@"}
        /\ \A n \in 1..Len(task.contexts) :
              /\ IsName(task.contexts[n])
              /\ \A i \in 1..Len(task.contexts[n]) :
                    task.contexts[n][i] \notin {"+", "@"}
        /\ \A n \in 1..Len(task.attributes) :
              /\ Len(task.attributes[n]) = 2
              /\ \A h \in 1..2 :
                    /\ IsName(task.attributes[n][h])
                    /\ \A i \in 1..Len(task.attributes[n][h]) :
                          task.attributes[n][h][i] # ":"

\* "+é:é" after both markers: a project named by a letter outside ASCII
C9_Witness ==
    /\ pc = "task"
    /\ kind = "parsed"
    /\ task.priority = "A"
    /\ task.projects = <<<<"é">>>>
    /\ task.description = <<":", "é">>

(***************************************************************************)
(* C10. No residual tokens: the description of a parsed line has no        *)
(* whitespace at either end and holds no +WORD, @WORD or WORD:WORD; it is  *)
(* the working description without its tokens, the spaces between what is  *)
(* left kept as they are.                                                  *)
(***************************************************************************)
C10_Description ==
    kind = "parsed" =>
        LET w0 == WorkingDescription(line)
            w1 == WithoutTags("+", w0)
            w2 == WithoutTags("@", w1)
        IN  /\ ~HasToken(task.description)
            /\ IsTrimOf(task.description, WithoutPairs(w2))

\* "a +a a": the two spaces around the deleted project stay
C10_Witness ==
    /\ pc = "task"
    /\ kind = "parsed"
    /\ line = <<"a", " ", "+", "a", " ", "a">>
    /\ task.description = <<"a", " ", " ", "a">>

====
